---- MODULE Spec2Model ----
(***************************************************************************)
(* Model of the vivid-onnx decode core: the Tensor shape algebra, the      *)
(* MoveNet pose decoder and the BlazeFace face decoder.                    *)
(*                                                                         *)
(* Three specifications share the variables below; each one drives one     *)
(* component and leaves the other components in their constructed state:   *)
(*   SpecTensor  Tensor::size / Tensor::reshape                            *)
(*   SpecPose    PoseDetector (setter + process cycle)                     *)
(*   SpecFace    FaceDetector (anchors, setters, process cycle)            *)
(*                                                                         *)
(* Numbers.  Floats are carried as exact fixed-point integers:             *)
(*   confidences and thresholds in thousandths (1.0 = 1000),               *)
(*   normalized face coordinates in 1/256 (1.0 = 256), which is exact for  *)
(*   anchors ((x+0.5)/16, (x+0.5)/8) and for integer regressors / 128.     *)
(***************************************************************************)
EXTENDS Integers, Sequences, FiniteSets, TLC

VARIABLES
    \* ---- Tensor (SpecTensor) ----
    shape,          \* Tensor::shape
    data,           \* Tensor::data (float buffer)
    tOp,            \* last Tensor operation: "none" | "assign" | "resize" | "size" | "reshape"
    tArg,           \* argument of the last reshape
    tPre,           \* shape / data / size() right before the last reshape
    tThrew,         \* the last reshape threw std::runtime_error
    tRet,           \* value returned by the last size() call
    \* ---- PoseDetector (SpecPose) ----
    m_keypoints,            \* std::array<glm::vec3,17>, each <<x, y, conf>>
    m_detected,
    m_poseThreshold,        \* PoseDetector::m_confidenceThreshold
    poseOut,                \* m_outputTensors[0] of the pose model
    poseOp,                 \* last PoseDetector operation
    \* ---- FaceDetector (SpecFace) ----
    m_anchors,
    m_faces,
    m_confidenceThreshold,  \* FaceDetector::m_confidenceThreshold
    m_maxFaces,
    m_outputTensors,        \* output tensors of the face model
    nmsIn,                  \* m_faces on entry to nonMaxSuppression() in the last cycle
    faceOp,                 \* last FaceDetector operation
    \* ---- ONNXModel lifecycle of one detector (SpecCycle) ----
    kind,                   \* the operator under test: "none" | "pose" | "face"
    m_modelPath,
    m_inputOp,              \* the input operator and what its cpuPixels() gives
    m_loaded,
    m_inputShapes,
    m_inputTensors,
    m_inputWidth,
    m_inputHeight,
    call,                   \* last init / process call and the stages it reached
    \* ---- ONNXModel::cpuPixelsToTensor (SpecResize) ----
    pixels,                 \* io::ImageData: width, height, channels, pixels
    tensorOut,              \* the destination Tensor: shape, type, data
    targetWidth,
    targetHeight,
    fpContract,             \* the build fuses a * b + c into one rounding
    converted               \* cpuPixelsToTensor has returned true

tensorVars == << shape, data, tOp, tArg, tPre, tThrew, tRet >>
poseVars   == << m_keypoints, m_detected, m_poseThreshold, poseOut, poseOp >>
faceVars   == << m_anchors, m_faces, m_confidenceThreshold, m_maxFaces,
                 m_outputTensors, nmsIn, faceOp >>
cycleVars  == << kind, m_modelPath, m_inputOp, m_loaded, m_inputShapes, m_inputTensors,
                 m_inputWidth, m_inputHeight, call >>
resizeVars == << pixels, tensorOut, targetWidth, targetHeight, fpContract, converted >>
vars       == << tensorVars, poseVars, faceVars, cycleVars, resizeVars >>

\* ------------------------------------------------------------------------
\* Generic helpers
\* ------------------------------------------------------------------------
Min(a, b) == IF a < b THEN a ELSE b
Max(a, b) == IF a > b THEN a ELSE b

ClampLowerOnly(v, lo, hi) == IF v < lo THEN lo ELSE v

\* std::clamp(v, lo, hi)
Clamp(v, lo, hi) == IF v < lo THEN lo ELSE IF v > hi THEN hi ELSE v

RECURSIVE SeqsUpTo(_, _)
SeqsUpTo(S, n) ==
    IF n = 0 THEN { << >> }
    ELSE LET shorter == SeqsUpTo(S, n - 1)
         IN  shorter \cup { Append(s, x) : s \in { t \in shorter : Len(t) = n - 1 }, x \in S }

\* ========================================================================
\* Tensor
\* ========================================================================
MaxRank == 2    \* longest shape drawn
MaxDim  == 2    \* largest dimension drawn

Dims   == 0 .. MaxDim
Shapes == SeqsUpTo(Dims, MaxRank)

\* std::accumulate(first, last, init, std::multiplies<int64_t>()): a left fold
RECURSIVE Accumulate(_, _)
Accumulate(s, acc) ==
    IF s = << >> THEN acc ELSE Accumulate(Tail(s), acc * Head(s))

SizeEmptyIsOne(sh) == Accumulate(sh, 1)

\* Tensor::size()
Size(sh) == IF sh = << >> THEN 0 ELSE Accumulate(sh, 1)

\* the float buffer after data.resize(n): kept prefix, value-initialised tail
Resized(buf, n) == [ i \in 1 .. n |-> IF i <= Len(buf) THEN buf[i] ELSE 0 ]

TensorSnapshot == [ shape |-> shape, data |-> data, size |-> Size(shape) ]
NoSnapshot     == [ shape |-> << >>, data |-> << >>, size |-> 0 ]

TensorInit ==
    /\ shape = << >>
    /\ data = << >>
    /\ tOp = "none"
    /\ tArg = << >>
    /\ tPre = NoSnapshot
    /\ tThrew = FALSE
    /\ tRet = 0

\* tensor.shape = {...}  (public field, assigned directly by callers and tests)
AssignShape(sh) ==
    /\ UNCHANGED << poseVars, faceVars, cycleVars, resizeVars >>
    /\ shape' = sh
    /\ tOp' = "assign"
    /\ tPre' = NoSnapshot
    /\ tArg' = << >>
    /\ tRet' = 0
    /\ tThrew' = FALSE
    /\ UNCHANGED data

\* tensor.data.resize(tensor.size())
ResizeData ==
    /\ UNCHANGED << poseVars, faceVars, cycleVars, resizeVars >>
    /\ data' = Resized(data, Size(shape))
    /\ tOp' = "resize"
    /\ tPre' = NoSnapshot
    /\ tArg' = << >>
    /\ tRet' = 0
    /\ tThrew' = FALSE
    /\ UNCHANGED shape

\* size_t n = tensor.size()
QuerySize ==
    /\ UNCHANGED << poseVars, faceVars, cycleVars, resizeVars >>
    /\ tRet' = Size(shape)
    /\ tOp' = "size"
    /\ tPre' = NoSnapshot
    /\ tArg' = << >>
    /\ tThrew' = FALSE
    /\ UNCHANGED << shape, data >>

ReshapeThrowsNever(newShape) == FALSE

\* the guard of Tensor::reshape: newSize != size()
ReshapeThrows(newShape) == Accumulate(newShape, 1) # Size(shape)

\* Tensor::reshape(newShape)
Reshape(newShape) ==
    /\ UNCHANGED << poseVars, faceVars, cycleVars, resizeVars >>
    /\ tOp' = "reshape"
    /\ tArg' = newShape
    /\ tPre' = TensorSnapshot
    /\ IF ReshapeThrows(newShape)
         THEN /\ tThrew' = TRUE
              /\ shape' = shape
         ELSE /\ tThrew' = FALSE
              /\ shape' = newShape
    /\ tRet' = 0
    /\ UNCHANGED data

TensorNext ==
    \/ \E sh \in Shapes : AssignShape(sh)
    \/ ResizeData
    \/ QuerySize
    \/ \E sh \in Shapes : Reshape(sh)

\* ========================================================================
\* PoseDetector
\* ========================================================================
NumKeypoints    == 17   \* std::array<glm::vec3, 17>
DetectionStride == 56   \* values per multipose detection: 17*3 + 5
MultiposeSize   == 336  \* element count of a [1, 6, 56] output
SingleposeSize  == 51   \* element count of a [1, 1, 17, 3] output
MinValidJoints  == 5    \* joints needed at/above threshold
PoseDefaultThreshold == 300   \* m_confidenceThreshold = 0.3f

MaxCand == 1    \* most candidates in a drawn [1, N, 56] output

\* ---- the output tensors the executor is made to return -----------------
\* A joint profile <<k, hi, lo>>: joints 0..k-1 have confidence hi, the rest lo.
Profiles == { << k, hi, lo >> : k \in {4, 5}, hi \in {400, 900}, lo \in {0} }

ProfileConf(p, i) == IF i < p[1] THEN p[2] ELSE p[3]

\* the (y, x, confidence) triple the model emits for joint i of subject tag
JointTriple(tag, p, i) ==
    << 2 * (NumKeypoints * tag + i), 2 * (NumKeypoints * tag + i) + 1, ProfileConf(p, i) >>

\* 17 triples, flattened
RECURSIVE JointValues(_, _, _)
JointValues(tag, p, i) ==
    IF i = NumKeypoints THEN << >>
    ELSE JointTriple(tag, p, i) \o JointValues(tag, p, i + 1)

\* one multipose detection: 51 keypoint values + 5 bbox values
DetectionValues(tag, p) == JointValues(tag, p, 0) \o << 0, 0, 1000, 1000, p[2] >>

RECURSIVE MultiValues(_, _)
MultiValues(ps, d) ==
    IF d = Len(ps) THEN << >>
    ELSE DetectionValues(d, ps[d + 1]) \o MultiValues(ps, d + 1)

ZeroBuffer(n) == [ i \in 1 .. n |-> 0 ]

\* Session::Run results as runInference stores them: data.size() is the
\* product of the returned shape
PoseFrames ==
    \* a zero-sized output
    { [ data |-> << >>, shape |-> << 1, 0, 17, 3 >> ] }
    \* a singlepose-like output with only 16 joints (48 values)
    \cup { [ data |-> SubSeq(JointValues(1, p, 0), 1, 48),
             shape |-> << 1, 1, 16, 3 >> ] : p \in { << 5, 900, 0 >> } }
    \* singlepose [1, 1, 17, 3]
    \cup { [ data |-> JointValues(tag, p, 0), shape |-> << 1, 1, 17, 3 >> ] :
             tag \in {1, 2}, p \in Profiles }
    \* 51 values under a 3-dimensional shape
    \cup { [ data |-> JointValues(3, p, 0), shape |-> << 1, 17, 3 >> ] :
             p \in { << 5, 900, 0 >> } }
    \* multipose [1, N, 56]
    \cup { [ data |-> MultiValues(ps, 0), shape |-> << 1, Len(ps), DetectionStride >> ] :
             ps \in SeqsUpTo(Profiles, MaxCand) \ { << >> } }
    \* multipose, 336 values under a 4-dimensional shape
    \cup { [ data |-> MultiValues(<< p1, p1, p2, p1, p1, p1 >>, 0),
             shape |-> << 1, 1, 6, DetectionStride >> ] : p1 \in Profiles, p2 \in Profiles }

\* the output tensor ONNXModel::init allocates from the declared shape
PoseDeclaredOutputs ==
    { [ data |-> ZeroBuffer(Size(sh)), shape |-> sh ] :
        sh \in { << 1, 1, 17, 3 >>, << 1, 6, DetectionStride >> } }

\* ---- PoseDetector::processOutputTensor ----------------------------------
\* tensor.data[i], 0-based
At(buf, i) == buf[i + 1]

IsMultipose(t) == Len(t.data) = MultiposeSize \/ Len(t.shape) = 3

\* joints of detection d with conf >= m_confidenceThreshold
ValidCount(buf, offset, thr) ==
    Cardinality({ i \in 0 .. NumKeypoints - 1 : At(buf, offset + i * 3 + 2) >= thr })

RECURSIVE SumConfFrom(_, _, _)
SumConfFrom(buf, offset, i) ==
    IF i = NumKeypoints THEN 0
    ELSE At(buf, offset + i * 3 + 2) + SumConfFrom(buf, offset, i + 1)

\* sumConf; avgConf = sumConf / 17.0f is compared only with other avgConf
\* values and with 0, so it is carried as 17 * avgConf
AvgConf17(buf, offset) == SumConfFrom(buf, offset, 0)

BetterByAvgOnly(validCount, avgConf, best) == avgConf > best.avgConf

\* validCount > bestValidCount || (validCount == bestValidCount && avgConf > bestAvgConf)
Better(validCount, avgConf, best) ==
    \/ validCount > best.validCount
    \/ (validCount = best.validCount /\ avgConf > best.avgConf)

\* the loop over d = from .. numDetections - 1
RECURSIVE BestScan(_, _, _, _, _)
BestScan(buf, thr, d, numDetections, best) ==
    IF d >= numDetections THEN best
    ELSE LET offset     == d * DetectionStride
             validCount == ValidCount(buf, offset, thr)
             avgConf    == AvgConf17(buf, offset)
         IN  IF Better(validCount, avgConf, best)
               THEN BestScan(buf, thr, d + 1, numDetections,
                             [ detection |-> d, validCount |-> validCount, avgConf |-> avgConf ])
               ELSE BestScan(buf, thr, d + 1, numDetections, best)

BestDetection(buf, thr) ==
    BestScan(buf, thr, 0, Len(buf) \div DetectionStride,
             [ detection |-> -1, validCount |-> 0, avgConf |-> 0 ])

KeypointsUnswapped(buf, offset) ==
    [ k \in 1 .. NumKeypoints |->
        << At(buf, offset + (k - 1) * 3 + 0),
           At(buf, offset + (k - 1) * 3 + 1),
           At(buf, offset + (k - 1) * 3 + 2) >> ]

\* m_keypoints[i] = glm::vec3(x, y, conf) with y = data[.. + 0], x = data[.. + 1]
KeypointsAt(buf, offset) ==
    [ k \in 1 .. NumKeypoints |->
        << At(buf, offset + (k - 1) * 3 + 1),
           At(buf, offset + (k - 1) * 3 + 0),
           At(buf, offset + (k - 1) * 3 + 2) >> ]

\* m_detected = validKeypoints >= 5
SingleAccepted(validKeypoints) == validKeypoints >= MinValidJoints

\* the (m_keypoints, m_detected) that processOutputTensor(t) leaves
PoseDecode(t, thr, kps) ==
    IF t.data = << >> THEN [ keypoints |-> kps, detected |-> FALSE ]
    ELSE IF IsMultipose(t)
      THEN LET best == BestDetection(t.data, thr)
           IN  IF best.detection >= 0 /\ best.validCount >= MinValidJoints
                 THEN [ keypoints |-> KeypointsAt(t.data, best.detection * DetectionStride),
                        detected |-> TRUE ]
                 ELSE [ keypoints |-> kps, detected |-> FALSE ]
      ELSE IF Len(t.data) < SingleposeSize
             THEN [ keypoints |-> kps, detected |-> FALSE ]
             ELSE [ keypoints |-> KeypointsAt(t.data, 0),
                    detected |-> SingleAccepted(ValidCount(t.data, 0, thr)) ]

\* ---- accessors ----------------------------------------------------------
KeypointSkipsFirst(index) ==
    IF index <= 0 \/ index >= NumKeypoints THEN << 0, 0 >>
    ELSE << m_keypoints[index + 1][1], m_keypoints[index + 1][2] >>

\* PoseDetector::keypoint(int index)
Keypoint(index) ==
    IF index < 0 \/ index >= NumKeypoints THEN << 0, 0 >>
    ELSE << m_keypoints[index + 1][1], m_keypoints[index + 1][2] >>

\* PoseDetector::confidence(int index)
PoseConfidence(index) ==
    IF index < 0 \/ index >= NumKeypoints THEN 0
    ELSE m_keypoints[index + 1][3]

\* ---- lifecycle ----------------------------------------------------------
PoseInit ==
    /\ m_keypoints = [ k \in 1 .. NumKeypoints |-> << 0, 0, 0 >> ]
    /\ m_detected = FALSE
    /\ m_poseThreshold = PoseDefaultThreshold
    /\ poseOut = [ data |-> << >>, shape |-> << >> ]
    /\ poseOp = "constructed"

\* ONNXModel::init with a model that loads: output tensor allocated, zero-filled
PoseModelInit(t) ==
    /\ UNCHANGED << tensorVars, faceVars, cycleVars, resizeVars >>
    /\ poseOp = "constructed"
    /\ poseOut' = t
    /\ poseOp' = "init"
    /\ UNCHANGED << m_keypoints, m_detected, m_poseThreshold >>

\* PoseDetector::confidenceThreshold(threshold)
PoseConfidenceThreshold(threshold) ==
    /\ UNCHANGED << tensorVars, faceVars, cycleVars, resizeVars >>
    /\ m_poseThreshold' = Clamp(threshold, 0, 1000)
    /\ poseOp' = IF poseOp \in { "constructed", "init" } THEN poseOp ELSE "config"
    /\ UNCHANGED << m_keypoints, m_detected, poseOut >>

\* ONNXModel::process of a loaded PoseDetector; ok = Session::Run returned
\* (outputs copied), ~ok = it threw (outputs keep their previous contents)
PoseProcess(ok, frame) ==
    /\ UNCHANGED << tensorVars, faceVars, cycleVars, resizeVars >>
    /\ poseOp # "constructed"
    /\ \E t \in { IF ok THEN frame ELSE poseOut } :
         \E r \in { PoseDecode(t, m_poseThreshold, m_keypoints) } :
           /\ poseOut' = t
           /\ m_keypoints' = r.keypoints
           /\ m_detected' = r.detected
    /\ poseOp' = IF ok THEN "process" ELSE "process_failed"
    /\ UNCHANGED m_poseThreshold

PoseThresholdArgs == { -500, 500, 1500 }

PoseNext ==
    \/ \E t \in PoseDeclaredOutputs : PoseModelInit(t)
    \/ \E th \in PoseThresholdArgs : PoseConfidenceThreshold(th)
    \/ \E frame \in PoseFrames : PoseProcess(TRUE, frame)
    \/ PoseProcess(FALSE, poseOut)


\* ========================================================================
\* FaceDetector
\* ========================================================================
NumAnchors           == 896   \* 16*16*2 + 8*8*6
RegressorsPerAnchor  == 16    \* 4 box values + 6 landmark (dx, dy) pairs
NumLandmarks         == 6
FaceScale            == 128   \* const float scale = 128.0f
Unit                 == 2 * FaceScale   \* fixed-point 1.0f: value / scale and w / 2 stay integral
IouNum               == 3     \* iouThreshold = 0.3f = IouNum / IouDen
IouDen               == 10
FaceDefaultThreshold == 500   \* m_confidenceThreshold = 0.5f
DefaultMaxFaces      == 10    \* m_maxFaces = 10

MaxActive == 2  \* most anchors given a foreground score in a drawn output

\* ---- FaceDetector::generateAnchors --------------------------------------
\* one anchor {cx, cy, 1.0f, 1.0f} with cx = (x + 0.5f) / size
Anchor(gridSize, x, y) ==
    << ((2 * x + 1) * Unit) \div (2 * gridSize),
       ((2 * y + 1) * Unit) \div (2 * gridSize), Unit, Unit >>

\* for (a = 0; a < anchorsPerCell; a++) push_back
CellAnchors(gridSize, perCell, x, y) == [ a \in 1 .. perCell |-> Anchor(gridSize, x, y) ]

\* for (x = from; x < size; x++)
RECURSIVE RowAnchors(_, _, _, _)
RowAnchors(gridSize, perCell, y, x) ==
    IF x >= gridSize THEN << >>
    ELSE CellAnchors(gridSize, perCell, x, y) \o RowAnchors(gridSize, perCell, y, x + 1)

\* for (y = from; y < size; y++)
RECURSIVE MapAnchors(_, _, _)
MapAnchors(gridSize, perCell, y) ==
    IF y >= gridSize THEN << >>
    ELSE RowAnchors(gridSize, perCell, y, 0) \o MapAnchors(gridSize, perCell, y + 1)

GenerateAnchorsSecondMapFirst == MapAnchors(8, 6, 0) \o MapAnchors(16, 2, 0)

GenerateAnchors == MapAnchors(16, 2, 0) \o MapAnchors(8, 6, 0)

\* ---- tensors ------------------------------------------------------------
\* A float buffer of len elements: element i (0-based) is val[i] where
\* listed and fill everywhere else.
Buffer(len, fill, val) == [ len |-> len, fill |-> fill, val |-> val ]
EmptyBuffer == Buffer(0, 0, << >>)

BufAt(buf, i) == IF i \in DOMAIN buf.val THEN buf.val[i] ELSE buf.fill

\* vector::insert(end, a.begin(), a.end()) then (b.begin(), b.end())
ConcatBuf(a, b) ==
    LET bIdx == IF b.fill = a.fill THEN DOMAIN b.val ELSE 0 .. b.len - 1
        idx  == (DOMAIN a.val) \cup { a.len + j : j \in bIdx }
    IN  Buffer(a.len + b.len, a.fill,
               [ i \in idx |-> IF i < a.len THEN BufAt(a, i) ELSE BufAt(b, i - a.len) ])

\* raw scores the executor is made to return, and their logistic sigmoid
\* 1 / (1 + exp(-s)) in thousandths (exp(100) overflows float: exactly 0)
Background == -100
Sigmoid(s) ==
    CASE s = Background -> 0
      [] s = -1 -> 268
      [] s = 0  -> 500
      [] s = 1  -> 731
      [] s = 2  -> 880
      [] s = 3  -> 952

\* regression rows the executor is made to return
RegA == << 0, 0, 32, 32,   -10, -8, 10, -8, 0, 0, 0, 12, -16, -4, 16, -4 >>
RegB == << 20, -6, 80, 140,   -300, 5, 300, 5, 0, 0, 0, 40, -40, 10, 900, -900 >>

\* the anchors that may carry a foreground score, with their regression row
Pool == << [ anchor |-> 272, reg |-> RegA ],
           [ anchor |-> 274, reg |-> RegA ],
           [ anchor |-> 278, reg |-> RegA ],
           [ anchor |-> 895, reg |-> RegB ] >>

ForegroundScores == { 1, 2 }

\* an assignment of foreground scores to at most MaxActive pool entries
Activations ==
    { f \in [ 1 .. Len(Pool) -> ForegroundScores \cup { Background } ] :
        Cardinality({ k \in 1 .. Len(Pool) : f[k] # Background }) <= MaxActive }

ActiveOf(f) == { k \in 1 .. Len(Pool) : f[k] # Background }

\* rows first .. first + count - 1 of the score / regression arrays of f
ScoreBuf(f, first, count) ==
    Buffer(count, Background,
           [ i \in { Pool[k].anchor - first : k \in { j \in ActiveOf(f) :
                       Pool[j].anchor >= first /\ Pool[j].anchor < first + count } } |->
               LET k == CHOOSE j \in ActiveOf(f) : Pool[j].anchor = i + first IN f[k] ])

RegBuf(f, first, count) ==
    Buffer(count * RegressorsPerAnchor, 0,
           [ i \in { (Pool[k].anchor - first) * RegressorsPerAnchor + c :
                       k \in { j \in ActiveOf(f) :
                                 Pool[j].anchor >= first /\ Pool[j].anchor < first + count },
                       c \in 0 .. RegressorsPerAnchor - 1 } |->
               LET k == CHOOSE j \in ActiveOf(f) :
                          Pool[j].anchor = first + (i \div RegressorsPerAnchor)
               IN  Pool[k].reg[(i % RegressorsPerAnchor) + 1] ])

\* [1, 896, 17]: 16 regression values then the raw score
CombinedBuf(f) ==
    Buffer(NumAnchors * 17, Background,
           [ i \in { Pool[k].anchor * 17 + c : k \in ActiveOf(f), c \in 0 .. 16 } |->
               LET k == CHOOSE j \in ActiveOf(f) : Pool[j].anchor = i \div 17
               IN  IF i % 17 = 16 THEN f[k] ELSE Pool[k].reg[(i % 17) + 1] ])

\* the output tensors of a model with numOutputs outputs for activation f
FaceOutputs(numOutputs, f) ==
    CASE numOutputs = 1 -> << CombinedBuf(f) >>
      [] numOutputs = 2 -> << RegBuf(f, 0, NumAnchors), ScoreBuf(f, 0, NumAnchors) >>
      [] numOutputs = 3 -> << RegBuf(f, 0, NumAnchors), ScoreBuf(f, 0, NumAnchors),
                              Buffer(NumAnchors, 0, << >>) >>
      [] numOutputs = 4 -> << ScoreBuf(f, 0, 512), ScoreBuf(f, 512, 384),
                              RegBuf(f, 0, 512), RegBuf(f, 512, 384) >>

\* zero-sized outputs
FaceEmptyOutputs(numOutputs) == [ k \in 1 .. numOutputs |-> EmptyBuffer ]

\* outputs as ONNXModel::init allocates them: declared size, zero-filled
FaceDeclaredOutputs(numOutputs) ==
    CASE numOutputs = 1 -> << Buffer(NumAnchors * 17, 0, << >>) >>
      [] numOutputs = 2 -> << Buffer(NumAnchors * RegressorsPerAnchor, 0, << >>),
                              Buffer(NumAnchors, 0, << >>) >>
      [] numOutputs = 3 -> << Buffer(NumAnchors * RegressorsPerAnchor, 0, << >>),
                              Buffer(NumAnchors, 0, << >>), Buffer(NumAnchors, 0, << >>) >>
      [] numOutputs = 4 -> << Buffer(512, 0, << >>), Buffer(384, 0, << >>),
                              Buffer(512 * RegressorsPerAnchor, 0, << >>),
                              Buffer(384 * RegressorsPerAnchor, 0, << >>) >>

\* ---- per-anchor decode --------------------------------------------------
\* value / scale, in Unit
Scaled(v) == (v * Unit) \div FaceScale

DecodeFaceUnclamped(buf, base, anchorsTable, i, score) ==
    LET ax == anchorsTable[i + 1][1]
        ay == anchorsTable[i + 1][2]
        cx == Scaled(BufAt(buf, base + 0)) + ax
        cy == Scaled(BufAt(buf, base + 1)) + ay
        w  == Scaled(BufAt(buf, base + 2))
        h  == Scaled(BufAt(buf, base + 3))
    IN  [ bbox |-> << cx - w \div 2, cy - h \div 2, w, h >>,
          landmarks |-> [ l \in 1 .. NumLandmarks |->
              << Scaled(BufAt(buf, base + 4 + (l - 1) * 2)) + ax,
                 Scaled(BufAt(buf, base + 4 + (l - 1) * 2 + 1)) + ay >> ],
          confidence |-> score ]

\* the DetectedFace built from the 16 values at box[0..15] for anchor i
DecodeFace(buf, base, anchorsTable, i, score) ==
    LET ax == anchorsTable[i + 1][1]
        ay == anchorsTable[i + 1][2]
        cx == Scaled(BufAt(buf, base + 0)) + ax
        cy == Scaled(BufAt(buf, base + 1)) + ay
        w  == Scaled(BufAt(buf, base + 2))
        h  == Scaled(BufAt(buf, base + 3))
    IN  [ bbox |-> << Clamp(cx - w \div 2, 0, Unit), Clamp(cy - h \div 2, 0, Unit),
                      Clamp(w, 0, Unit), Clamp(h, 0, Unit) >>,
          landmarks |-> [ l \in 1 .. NumLandmarks |->
              << Clamp(Scaled(BufAt(buf, base + 4 + (l - 1) * 2)) + ax, 0, Unit),
                 Clamp(Scaled(BufAt(buf, base + 4 + (l - 1) * 2 + 1)) + ay, 0, Unit) >> ],
          confidence |-> score ]

\* anchors i in 0 .. numAnchors-1 whose sigmoid score passes  score >= threshold,
\* the score of anchor i being scores[i * stride + offset]; the anchors whose
\* score is the buffer's fill value pass or fail together
AcceptedAnchors(scores, stride, offset, thr, numAnchors) ==
    LET listed == { (j - offset) \div stride :
                      j \in { d \in DOMAIN scores.val :
                                d >= offset /\ (d - offset) % stride = 0
                                /\ (d - offset) \div stride < numAnchors } }
    IN  { i \in listed : Sigmoid(BufAt(scores, i * stride + offset)) >= thr }
        \cup (IF Sigmoid(scores.fill) >= thr THEN (0 .. numAnchors - 1) \ listed ELSE {})

\* the elements of a finite set of integers in increasing order
RECURSIVE Ascending(_)
Ascending(S) ==
    IF S = {} THEN << >>
    ELSE LET m == CHOOSE x \in S : \A y \in S : x <= y
         IN  << m >> \o Ascending(S \ { m })

\* the n smallest elements of S in increasing order (all of S if it has fewer)
RECURSIVE AscendingPrefix(_, _)
AscendingPrefix(S, n) ==
    IF S = {} \/ n <= 0 THEN << >>
    ELSE LET m == CHOOSE x \in S : \A y \in S : x <= y
         IN  << m >> \o AscendingPrefix(S \ { m }, n - 1)

IsDescending(fs) ==
    \A k \in 1 .. Len(fs) - 1 : fs[k].confidence >= fs[k + 1].confidence

IndexPermutations(n) ==
    { p \in [ 1 .. n -> 1 .. n ] : \A a, b \in 1 .. n : a # b => p[a] # p[b] }

\* std::sort(candidates, a.confidence > b.confidence): every ordering of the
\* candidates that is descending in confidence (equal elements in any order)
SortByConfidence(cands) ==
    { fs \in { [ k \in 1 .. Len(cands) |-> cands[p[k]] ] : p \in IndexPermutations(Len(cands)) } :
        IsDescending(fs) }

\* if (candidates.size() > m_maxFaces * 3) candidates.resize(m_maxFaces * 3)
TakeTop(cands, maxFaces) ==
    IF Len(cands) > maxFaces * 3 THEN SubSeq(cands, 1, maxFaces * 3) ELSE cands

\* FaceDetector::decodeDetections: the possible values of m_faces
DecodeDetections(regressors, scores, numAnchors, thr, maxFaces, anchorsTable) ==
    LET accepted   == Ascending(AcceptedAnchors(scores, 1, 0, thr, numAnchors))
        candidates == [ k \in 1 .. Len(accepted) |->
                          DecodeFace(regressors, accepted[k] * RegressorsPerAnchor, anchorsTable,
                                     accepted[k], Sigmoid(BufAt(scores, accepted[k]))) ]
    IN  { TakeTop(fs, maxFaces) : fs \in SortByConfidence(candidates) }

\* the inline loop of the single-output branch:
\*   for (i = 0; i < numAnchors && m_faces.size() < m_maxFaces; i++)
DecodeCombined(tensor, valuesPerAnchor, numAnchors, thr, maxFaces, anchorsTable) ==
    LET taken == AscendingPrefix(AcceptedAnchors(tensor, valuesPerAnchor, 16, thr, numAnchors),
                                 maxFaces)
    IN  [ k \in 1 .. Len(taken) |->
            DecodeFace(tensor, taken[k] * valuesPerAnchor, anchorsTable, taken[k],
                       Sigmoid(BufAt(tensor, taken[k] * valuesPerAnchor + 16))) ]

\* ---- FaceDetector::nonMaxSuppression ------------------------------------
Intersection(boxA, boxB) ==
    LET x1 == Max(boxA[1], boxB[1])
        y1 == Max(boxA[2], boxB[2])
        x2 == Min(boxA[1] + boxA[3], boxB[1] + boxB[3])
        y2 == Min(boxA[2] + boxA[4], boxB[2] + boxB[4])
    IN  Max(0, x2 - x1) * Max(0, y2 - y1)

UnionArea(boxA, boxB) ==
    boxA[3] * boxA[4] + boxB[3] * boxB[4] - Intersection(boxA, boxB)

\* iou > iouThreshold, with iou = (unionArea > 0) ? intersection / unionArea : 0
IouAbove(boxA, boxB) ==
    /\ UnionArea(boxA, boxB) > 0
    /\ IouDen * Intersection(boxA, boxB) > IouNum * UnionArea(boxA, boxB)

\* the outer loop from index i with the kept list and the suppressed set
RECURSIVE NmsLoop(_, _, _, _, _)
NmsLoop(faces, i, kept, suppressed, maxFaces) ==
    IF i > Len(faces) \/ Len(kept) >= maxFaces THEN kept
    ELSE IF i \in suppressed THEN NmsLoop(faces, i + 1, kept, suppressed, maxFaces)
    ELSE NmsLoop(faces, i + 1, Append(kept, faces[i]),
                 suppressed \cup { j \in i + 1 .. Len(faces) :
                                     j \notin suppressed /\ IouAbove(faces[i].bbox, faces[j].bbox) },
                 maxFaces)

NonMaxSuppressionKeepsAll(faces, maxFaces) ==
    IF Len(faces) > maxFaces THEN SubSeq(faces, 1, maxFaces) ELSE faces

NonMaxSuppression(faces, maxFaces) ==
    IF faces = << >> THEN faces ELSE NmsLoop(faces, 1, << >>, {}, maxFaces)

\* ---- FaceDetector::processOutputTensor ----------------------------------
\* m_faces.clear() followed by an early return: nonMaxSuppression not reached
ClearedOnly == [ candidates |-> << >>, faces |-> << >>, nms |-> FALSE ]

\* the trailing nonMaxSuppression() call on the decoded m_faces
WithNms(fs, maxFaces) ==
    [ candidates |-> fs, faces |-> NonMaxSuppression(fs, maxFaces), nms |-> TRUE ]

\* the regression and score arrays decodeDetections is handed, and whether
\* the branch gets as far as calling it (neither first array empty)
DecoderArrays(outputs) ==
    IF Len(outputs) = 4
      THEN [ regressors |-> ConcatBuf(outputs[3], outputs[4]),
             scores     |-> ConcatBuf(outputs[1], outputs[2]),
             called     |-> outputs[1].len > 0 /\ outputs[3].len > 0 ]
    ELSE IF Len(outputs) >= 2
      THEN [ regressors |-> outputs[1], scores |-> outputs[2],
             called     |-> outputs[1].len > 0 /\ outputs[2].len > 0 ]
    ELSE [ regressors |-> EmptyBuffer, scores |-> EmptyBuffer, called |-> FALSE ]

\* decodeDetections reads scores[i] for every i < numAnchors and
\* regressors[i * 16 .. i * 16 + 15] for every accepted i, whatever the
\* lengths of the arrays: some read lies past the end of its array
ReadsPastEnd(outputs, thr, numAnchors) ==
    LET a == DecoderArrays(outputs)
    IN  /\ a.called
        /\ \/ a.scores.len < numAnchors
           \/ \E i \in AcceptedAnchors(a.scores, 1, 0, thr, Min(numAnchors, a.scores.len)) :
                (i + 1) * RegressorsPerAnchor > a.regressors.len

\* what a read past the end of a score / regression array may return
GarbageScores     == { Background, 2 }
GarbageRegressors == { 0, 64 }

\* the array as the decoder sees it when it reads `need` elements of buf: the
\* elements buf has, then whatever lies behind them (garbage g in the last
\* element read, the buffer's fill value in the others)
ReadThrough(buf, need, g) ==
    IF buf.len >= need THEN buf
    ELSE Buffer(need, buf.fill,
                IF g = buf.fill THEN buf.val
                ELSE [ i \in (DOMAIN buf.val) \cup { need - 1 } |->
                         IF i = need - 1 THEN g ELSE buf.val[i] ])

\* the values a read behind buf may return when `need` elements are read:
\* nothing is read behind an array that is long enough
Behind(buf, need, garbage) == IF buf.len >= need THEN { buf.fill } ELSE garbage

\* the possible values of m_faces after decodeDetections on the two arrays
DecodeArrays(a, numAnchors, thr, maxFaces, anchorsTable) ==
    UNION { DecodeDetections(ReadThrough(a.regressors, numAnchors * RegressorsPerAnchor, gr),
                             ReadThrough(a.scores, numAnchors, gs),
                             numAnchors, thr, maxFaces, anchorsTable) :
              gs \in Behind(a.scores, numAnchors, GarbageScores),
              gr \in Behind(a.regressors, numAnchors * RegressorsPerAnchor, GarbageRegressors) }

\* the possible outcomes of processOutputTensor(outputs[0]): m_faces on entry
\* to nonMaxSuppression (candidates) and on return (faces)
ProcessOutputTensor(outputs, thr, maxFaces, anchorsTable) ==
    IF Len(outputs) = 4
      THEN IF outputs[1].len = 0 \/ outputs[3].len = 0 THEN { ClearedOnly }
           ELSE { WithNms(fs, maxFaces) :
                    fs \in DecodeArrays(DecoderArrays(outputs),
                                        Len(anchorsTable), thr, maxFaces, anchorsTable) }
    ELSE IF Len(outputs) >= 2
      THEN IF outputs[1].len = 0 \/ outputs[2].len = 0 THEN { ClearedOnly }
           ELSE { WithNms(fs, maxFaces) :
                    fs \in DecodeArrays(DecoderArrays(outputs),
                                        Len(anchorsTable), thr, maxFaces, anchorsTable) }
    ELSE IF Len(outputs) = 1
      THEN IF outputs[1].len = 0 THEN { ClearedOnly }
           ELSE LET numAnchors      == Len(anchorsTable)
                    valuesPerAnchor == outputs[1].len \div numAnchors
                IN  IF valuesPerAnchor >= 17
                      THEN { WithNms(DecodeCombined(outputs[1], valuesPerAnchor, numAnchors,
                                                    thr, maxFaces, anchorsTable), maxFaces) }
                      ELSE { WithNms(<< >>, maxFaces) }
    ELSE { WithNms(<< >>, maxFaces) }

\* ---- accessors ----------------------------------------------------------
\* static DetectedFace s_emptyFace = {}
EmptyFace ==
    [ bbox |-> << 0, 0, 0, 0 >>,
      landmarks |-> [ l \in 1 .. NumLandmarks |-> << 0, 0 >> ],
      confidence |-> 0 ]

\* FaceDetector::face(int index)
Face(index) ==
    IF index < 0 \/ index >= Len(m_faces) THEN EmptyFace ELSE m_faces[index + 1]

BoundingBoxOfNearest(faceIndex) ==
    IF m_faces = << >> THEN << 0, 0, 0, 0 >>
    ELSE m_faces[Clamp(faceIndex, 0, Len(m_faces) - 1) + 1].bbox

\* FaceDetector::boundingBox(int faceIndex)
BoundingBox(faceIndex) ==
    IF faceIndex < 0 \/ faceIndex >= Len(m_faces) THEN << 0, 0, 0, 0 >>
    ELSE m_faces[faceIndex + 1].bbox

\* FaceDetector::landmark(int faceIndex, int landmarkIndex)
Landmark(faceIndex, landmarkIndex) ==
    IF \/ faceIndex < 0 \/ faceIndex >= Len(m_faces)
       \/ landmarkIndex < 0 \/ landmarkIndex >= NumLandmarks
      THEN << 0, 0 >>
      ELSE m_faces[faceIndex + 1].landmarks[landmarkIndex + 1]

\* FaceDetector::confidence(int faceIndex)
FaceConfidence(faceIndex) ==
    IF faceIndex < 0 \/ faceIndex >= Len(m_faces) THEN 0
    ELSE m_faces[faceIndex + 1].confidence

\* FaceDetector::faceCount()
FaceCount == Len(m_faces)

\* ---- lifecycle ----------------------------------------------------------
\* FaceDetector::FaceDetector()
FaceInit ==
    /\ m_anchors = GenerateAnchors
    /\ m_faces = << >>
    /\ m_confidenceThreshold = FaceDefaultThreshold
    /\ m_maxFaces = DefaultMaxFaces
    /\ m_outputTensors = << >>
    /\ nmsIn = << >>
    /\ faceOp = "constructed"

\* ONNXModel::init with a model of numOutputs outputs that loads
FaceModelInit(numOutputs) ==
    /\ UNCHANGED << tensorVars, poseVars, cycleVars, resizeVars >>
    /\ faceOp = "constructed"
    /\ m_outputTensors' = FaceDeclaredOutputs(numOutputs)
    /\ faceOp' = "init"
    /\ UNCHANGED << m_anchors, m_faces, m_confidenceThreshold, m_maxFaces, nmsIn >>

\* FaceDetector::confidenceThreshold(threshold)
FaceConfidenceThreshold(threshold) ==
    /\ UNCHANGED << tensorVars, poseVars, cycleVars, resizeVars >>
    /\ m_confidenceThreshold' = Clamp(threshold, 0, 1000)
    /\ faceOp' = IF faceOp = "constructed" THEN "constructed" ELSE "config"
    /\ UNCHANGED << m_anchors, m_faces, m_maxFaces, m_outputTensors, nmsIn >>

\* FaceDetector::maxFaces(max)
FaceMaxFaces(max) ==
    /\ UNCHANGED << tensorVars, poseVars, cycleVars, resizeVars >>
    /\ m_maxFaces' = Max(1, max)
    /\ faceOp' = IF faceOp = "constructed" THEN "constructed" ELSE "config"
    /\ UNCHANGED << m_anchors, m_faces, m_confidenceThreshold, m_outputTensors, nmsIn >>

\* ONNXModel::process of a loaded FaceDetector whose Session::Run returns outs
FaceProcess(outs) ==
    /\ UNCHANGED << tensorVars, poseVars, cycleVars, resizeVars >>
    /\ faceOp # "constructed"
    /\ m_outputTensors' = outs
    /\ \E r \in ProcessOutputTensor(outs, m_confidenceThreshold, m_maxFaces, m_anchors) :
         /\ m_faces' = r.faces
         /\ nmsIn' = r.candidates
    /\ faceOp' = "process"
    /\ UNCHANGED << m_anchors, m_confidenceThreshold, m_maxFaces >>

\* ONNXModel::process of a loaded FaceDetector whose Session::Run throws: the
\* exception is caught inside runInference, the output tensors keep their
\* contents, and processOutputTensor runs on them
FaceProcessFailed ==
    /\ UNCHANGED << tensorVars, poseVars, cycleVars, resizeVars >>
    /\ faceOp # "constructed"
    /\ \E r \in ProcessOutputTensor(m_outputTensors, m_confidenceThreshold, m_maxFaces, m_anchors) :
         /\ m_faces' = r.faces
         /\ nmsIn' = r.candidates
    /\ faceOp' = "process_failed"
    /\ UNCHANGED << m_anchors, m_confidenceThreshold, m_maxFaces, m_outputTensors >>

\* ONNXModel::process of a loaded FaceDetector in which a read past the end of
\* an output array faults: m_faces was cleared on entry, nothing runs after
FaceProcessFaults(outs) ==
    /\ UNCHANGED << tensorVars, poseVars, cycleVars, resizeVars >>
    /\ faceOp # "constructed"
    /\ ReadsPastEnd(outs, m_confidenceThreshold, Len(m_anchors))
    /\ m_outputTensors' = outs
    /\ m_faces' = << >>
    /\ nmsIn' = << >>
    /\ faceOp' = "fault"
    /\ UNCHANGED << m_anchors, m_confidenceThreshold, m_maxFaces >>

\* the failing cycles drawn.  With 2 or 4 outputs still holding init's
\* zero-filled buffers and a threshold of 0.5 or less, all 896 anchors are
\* candidates of equal confidence and std::sort leaves them in an unspecified
\* order; those cycles are not drawn.
FailureDrawn ==
    \/ Len(m_outputTensors) = 1
    \/ m_confidenceThreshold > Sigmoid(0)
    \/ m_outputTensors # FaceDeclaredOutputs(Len(m_outputTensors))

OutputCounts       == { 1, 2, 3, 4 }

\* the activations drawn for a model with n outputs
ActivationsFor(n) ==
    IF n = 3 THEN { f \in Activations : Cardinality(ActiveOf(f)) <= 1 /\ f[1] \in { Background, 2 } }
    ELSE Activations

\* Session::Run results of a model with n outputs
FaceFrames == [ n \in OutputCounts |-> { FaceOutputs(n, f) : f \in ActivationsFor(n) } ]

\* anchors covered by the short score / regression outputs drawn
ShortAnchors == 300

\* results whose tensors are shorter than 896 anchors: a combined output of
\* 100 values, 2 (3) outputs covering ShortAnchors anchors, 4 outputs whose
\* second-tier tensors are empty
ShortFaceFrames ==
    [ n \in OutputCounts |->
        CASE n = 1 -> { << Buffer(100, 0, << >>) >> }
          [] n = 2 -> { << RegBuf(f, 0, ShortAnchors), ScoreBuf(f, 0, ShortAnchors) >> :
                          f \in { g \in ActivationsFor(3) : g[2] = Background /\ g[3] = Background } }
          [] n = 3 -> { << RegBuf(f, 0, ShortAnchors), ScoreBuf(f, 0, ShortAnchors),
                           EmptyBuffer >> :
                          f \in { g \in ActivationsFor(3) : ActiveOf(g) = {} } }
          [] n = 4 -> { << ScoreBuf(f, 0, 512), EmptyBuffer, RegBuf(f, 0, 512), EmptyBuffer >> :
                          f \in { g \in ActivationsFor(3) : g[2] = Background /\ g[3] = Background } } ]

FaceThresholdArgs  == { 800 }
MaxFacesArgs       == { 0 }

\* a component whose process faulted runs nothing further
FaceRuns == faceOp \notin { "constructed", "fault" }

FaceNext ==
    \/ \E n \in OutputCounts : FaceModelInit(n)
    \/ faceOp # "fault" /\ \E th \in FaceThresholdArgs : FaceConfidenceThreshold(th)
    \/ faceOp # "fault" /\ \E mx \in MaxFacesArgs : FaceMaxFaces(mx)
    \/ FaceRuns /\ \E outs \in FaceFrames[Len(m_outputTensors)] : FaceProcess(outs)
    \/ faceOp # "fault" /\ FaceProcess(FaceEmptyOutputs(Len(m_outputTensors)))
    \/ FaceRuns /\ \E outs \in ShortFaceFrames[Len(m_outputTensors)] : FaceProcess(outs)
    \/ FaceRuns /\ \E outs \in ShortFaceFrames[Len(m_outputTensors)] \cup { m_outputTensors } :
                     FaceProcessFaults(outs)
    \/ FaceRuns /\ FailureDrawn /\ FaceProcessFailed

\* ========================================================================
\* ONNXModel lifecycle of one detector: model / input / init / process
\* ========================================================================
\* m_inputOp: attached = an operator is set; has = its cpuPixels() is not
\* null; empty / width / height describe the io::ImageData it gives
PixelSource(attached, has, empty, width, height) ==
    [ attached |-> attached, has |-> has, empty |-> empty, width |-> width, height |-> height ]

NoOperator == PixelSource(FALSE, FALSE, TRUE, 0, 0)

InputOps ==
    { NoOperator,
      PixelSource(TRUE, FALSE, TRUE, 0, 0),     \* cpuPixels() gives no buffer
      PixelSource(TRUE, TRUE, TRUE, 4, 4),      \* an empty pixel vector
      PixelSource(TRUE, TRUE, FALSE, 0, 4),     \* width 0
      PixelSource(TRUE, TRUE, FALSE, 4, -1),    \* negative height
      PixelSource(TRUE, TRUE, FALSE, 4, 4) }    \* a 4x4 image

ModelPaths == { "", "model.onnx" }

\* ---- ghost: the last init / process call --------------------------------
NoCall ==
    [ op |-> "none", prepared |-> FALSE, inferred |-> FALSE, decoded |-> FALSE,
      inited |-> FALSE ]

Called(op, prepared, inferred, decoded) ==
    [ op |-> op, prepared |-> prepared, inferred |-> inferred, decoded |-> decoded,
      inited |-> (call.inited \/ op = "init") ]

\* ---- what a model file declares -----------------------------------------
DeclaredInput(sh, type) == [ shape |-> sh, type |-> type ]

\* the input lists of the pose models drawn (-1 = dynamic dimension)
PoseModelInputs ==
    { << DeclaredInput(<< 1, 192, 256, 3 >>, "int32") >>,
      << DeclaredInput(<< 1, -1, -1, 3 >>, "int32") >>,
      << DeclaredInput(<< 1, 32, 32, 3 >>, "uint8") >>,
      << DeclaredInput(<< 1, 31, 64, 3 >>, "uint8") >>,
      << DeclaredInput(<< 64, 64, 3 >>, "float32") >>,
      << >> }

FaceModelInputs ==
    { << DeclaredInput(<< 1, 128, 128, 3 >>, "float32") >>,
      << DeclaredInput(<< 1, -1, -1, 3 >>, "float32") >>,
      << DeclaredInput(<< 1, 256, 256, 3 >>, "uint8") >> }

\* if (dim < 0) dim = 1
Normalized(sh) == [ i \in 1 .. Len(sh) |-> IF sh[i] < 0 THEN 1 ELSE sh[i] ]

\* every element of the active buffer is `value` (thousandths), or the buffer
\* holds the converted image
Filled(value) == [ image |-> FALSE, value |-> value ]
Image         == [ image |-> TRUE, value |-> 0 ]

\* m_inputTensors[i] as init allocates it: the buffer of its type sized to
\* size(), value-initialised
AllocatedInput(in) ==
    LET sh == Normalized(in.shape)
        n  == Size(sh)
    IN  [ shape |-> sh, type |-> in.type,
          sizeU8  |-> IF in.type = "uint8" THEN n ELSE 0,
          sizeI32 |-> IF in.type = "int32" THEN n ELSE 0,
          sizeF32 |-> IF in.type = "float32" THEN n ELSE 0,
          content |-> Filled(0) ]

\* what a buffer holds after init runs again on a tensor earlier cycles have
\* written: the earlier contents, cut or zero-extended to the new size
Stale == [ image |-> FALSE, value |-> -1 ]

\* m_inputTensors.resize(numInputs) keeps the tensors it already has: init
\* on an existing tensor reassigns shape and type and resizes the buffer of
\* the type, leaving the other buffers as they are
ReallocatedInput(prev, in) ==
    LET sh  == Normalized(in.shape)
        n   == Size(sh)
        had == CASE in.type = "uint8" -> prev.sizeU8
                 [] in.type = "int32" -> prev.sizeI32
                 [] OTHER             -> prev.sizeF32
    IN  [ shape |-> sh, type |-> in.type,
          sizeU8  |-> IF in.type = "uint8" THEN n ELSE prev.sizeU8,
          sizeI32 |-> IF in.type = "int32" THEN n ELSE prev.sizeI32,
          sizeF32 |-> IF in.type = "float32" THEN n ELSE prev.sizeF32,
          content |-> IF had = 0 THEN Filled(0) ELSE Stale ]

\* m_inputTensors after init's allocation loop
AllocatedInputs(prev, inputs) ==
    [ i \in 1 .. Len(inputs) |->
        IF i <= Len(prev) THEN ReallocatedInput(prev[i], inputs[i])
        ELSE AllocatedInput(inputs[i]) ]

\* m_outputTensors[i].data.resize(n) on a Buffer
ResizedBuffer(buf, n) ==
    IF buf.len = n THEN buf
    ELSE Buffer(n, 0, [ i \in { j \in 0 .. Min(n, buf.len) - 1 : BufAt(buf, j) # 0 } |->
                          BufAt(buf, i) ])

\* ---- onModelLoaded ------------------------------------------------------
DefaultResolution(k) == IF k = "pose" THEN << 192, 192 >> ELSE << 128, 128 >>

\* PoseDetector::onModelLoaded: the << m_inputWidth, m_inputHeight >> it leaves
PoseOnModelLoaded(shapes, current) ==
    IF shapes # << >> /\ Len(shapes[1]) >= 4
      THEN LET h == shapes[1][2]
               w == shapes[1][3]
           IN  IF h < 32 \/ w < 32 THEN << 256, 256 >> ELSE << w, h >>
      ELSE current

\* FaceDetector::onModelLoaded
FaceOnModelLoaded(shapes, current) ==
    IF shapes # << >> /\ Len(shapes[1]) >= 4
      THEN LET h == shapes[1][2]
               w == shapes[1][3]
           IN  IF h > 32 /\ w > 32 THEN << w, h >> ELSE current
      ELSE current

\* ---- prepareInputTensor -------------------------------------------------
\* cpuPixelsToTensor returns false
InvalidPixels(op) == op.empty \/ op.width <= 0 \/ op.height <= 0

\* textureToTensor returns true
TextureToTensor(op) == op.attached /\ op.has /\ ~InvalidPixels(op)

\* the gray placeholder: 128 for uint8 / int32, 0.5f (pose) or 0.0f (face) for float
Placeholder(k, type) ==
    IF type \in { "uint8", "int32" } THEN Filled(128000)
    ELSE IF k = "pose" THEN Filled(500) ELSE Filled(0)

\* PoseDetector / FaceDetector::prepareInputTensor(ctx, tensor)
PrepareInputTensor(t, k, width, height, op) ==
    LET channels == IF Len(t.shape) >= 4 THEN t.shape[4] ELSE 3
        sh       == << 1, height, width, channels >>
        n        == Size(sh)
        growU8   == t.type = "uint8" /\ t.sizeU8 # n
        growI32  == ~growU8 /\ t.type = "int32" /\ t.sizeI32 # n
        growF32  == ~growU8 /\ ~growI32 /\ t.sizeF32 # n
    IN  [ shape |-> sh, type |-> t.type,
          sizeU8  |-> IF growU8 THEN n ELSE t.sizeU8,
          sizeI32 |-> IF growI32 THEN n ELSE t.sizeI32,
          sizeF32 |-> IF growF32 THEN n ELSE t.sizeF32,
          content |-> IF TextureToTensor(op) THEN Image ELSE Placeholder(k, t.type) ]

\* ---- configuration ------------------------------------------------------
\* ONNXModel::model(path)
Model(path) ==
    /\ UNCHANGED << tensorVars, poseVars, faceVars, resizeVars >>
    /\ m_modelPath' = path
    /\ call' = Called("model", FALSE, FALSE, FALSE)
    /\ UNCHANGED << kind, m_inputOp, m_loaded, m_inputShapes, m_inputTensors,
                    m_inputWidth, m_inputHeight >>

\* ONNXModel::input(op)
Input(op) ==
    /\ UNCHANGED << tensorVars, poseVars, faceVars, resizeVars >>
    /\ m_inputOp' = op
    /\ call' = Called("input", FALSE, FALSE, FALSE)
    /\ UNCHANGED << kind, m_modelPath, m_loaded, m_inputShapes, m_inputTensors,
                    m_inputWidth, m_inputHeight >>

\* ---- ONNXModel::init ----------------------------------------------------
InitLoadsAnyPath(path) == FALSE

\* if (m_modelPath.empty()) return
InitReturnsEarly(path) == path = ""

\* ONNXModel::init(ctx) of a component that is not loaded; inputs = what the
\* model file declares, loads = the Ort::Session constructor returns (FALSE:
\* it throws Ort::Exception)
ModelInit(inputs, loads) ==
    /\ UNCHANGED << tensorVars, resizeVars >>
    /\ ~m_loaded
    /\ call' = Called("init", FALSE, FALSE, FALSE)
    /\ IF InitReturnsEarly(m_modelPath) \/ ~loads
         THEN /\ m_loaded' = FALSE
              /\ UNCHANGED << poseVars, faceVars, m_inputShapes, m_inputTensors,
                              m_inputWidth, m_inputHeight >>
         ELSE /\ m_loaded' = TRUE
              /\ m_inputShapes' = [ i \in 1 .. Len(inputs) |-> Normalized(inputs[i].shape) ]
              /\ m_inputTensors' = AllocatedInputs(m_inputTensors, inputs)
              /\ \E res \in { IF kind = "pose"
                                 THEN PoseOnModelLoaded(m_inputShapes', << m_inputWidth, m_inputHeight >>)
                                 ELSE FaceOnModelLoaded(m_inputShapes', << m_inputWidth, m_inputHeight >>) } :
                   /\ m_inputWidth' = res[1]
                   /\ m_inputHeight' = res[2]
              /\ IF kind = "pose"
                   THEN /\ poseOut' = [ data |-> Resized(poseOut.data, SingleposeSize),
                                        shape |-> << 1, 1, 17, 3 >> ]
                        /\ poseOp' = "init"
                        /\ UNCHANGED << m_keypoints, m_detected, m_poseThreshold, faceVars >>
                   ELSE /\ m_outputTensors' =
                             IF m_outputTensors = << >> THEN FaceDeclaredOutputs(1)
                             ELSE << ResizedBuffer(m_outputTensors[1], NumAnchors * 17) >>
                        /\ faceOp' = "init"
                        /\ UNCHANGED << m_anchors, m_faces, m_confidenceThreshold, m_maxFaces,
                                        nmsIn, poseVars >>
    /\ UNCHANGED << kind, m_modelPath, m_inputOp >>

\* ONNXModel::cleanup(): the session is released and m_loaded cleared
Cleanup ==
    /\ m_loaded' = FALSE
    /\ call' = Called("cleanup", FALSE, FALSE, FALSE)
    /\ UNCHANGED << tensorVars, resizeVars, poseVars, faceVars, kind, m_modelPath, m_inputOp,
                    m_inputShapes, m_inputTensors, m_inputWidth, m_inputHeight >>

\* ---- ONNXModel::process -------------------------------------------------
\* if (!m_loaded || !m_inputOp) return;  if (!m_inputOp->cpuPixels()) return;
ProcessReturnsEarly == ~m_loaded \/ ~m_inputOp.attached \/ ~m_inputOp.has

\* the early return: nothing is touched
ProcessSkipped ==
    /\ call' = Called("process", FALSE, FALSE, FALSE)
    /\ UNCHANGED << tensorVars, resizeVars, poseVars, faceVars, kind, m_modelPath, m_inputOp,
                    m_loaded, m_inputShapes, m_inputTensors, m_inputWidth, m_inputHeight >>

\* if (!m_inputTensors.empty()) prepareInputTensor(ctx, m_inputTensors[0])
ProcessPrepares ==
    /\ m_inputTensors' =
         IF m_inputTensors = << >> THEN m_inputTensors
         ELSE [ m_inputTensors EXCEPT ![1] =
                  PrepareInputTensor(@, kind, m_inputWidth, m_inputHeight, m_inputOp) ]
    /\ call' = Called("process", m_inputTensors # << >>, TRUE, TRUE)
    /\ UNCHANGED << tensorVars, resizeVars, kind, m_modelPath, m_inputOp, m_loaded,
                    m_inputShapes, m_inputWidth, m_inputHeight >>

\* ONNXModel::process(ctx) of a PoseDetector; ok / frame as in PoseProcess
PoseCycle(ok, frame) ==
    /\ kind = "pose"
    /\ IF ProcessReturnsEarly THEN ProcessSkipped
       ELSE /\ ProcessPrepares
            /\ \E t \in { IF ok THEN frame ELSE poseOut } :
                 \E r \in { PoseDecode(t, m_poseThreshold, m_keypoints) } :
                   /\ poseOut' = t
                   /\ m_keypoints' = r.keypoints
                   /\ m_detected' = r.detected
            /\ poseOp' = IF ok THEN "process" ELSE "process_failed"
            /\ UNCHANGED << m_poseThreshold, faceVars >>

\* ONNXModel::process(ctx) of a FaceDetector; ok / outs as in FaceProcess
FaceCycle(ok, outs) ==
    /\ kind = "face"
    /\ IF ProcessReturnsEarly THEN ProcessSkipped
       ELSE /\ ProcessPrepares
            /\ \E stored \in { IF ok THEN outs ELSE m_outputTensors } :
                 /\ m_outputTensors' = stored
                 /\ \E r \in ProcessOutputTensor(stored, m_confidenceThreshold, m_maxFaces,
                                                  m_anchors) :
                      /\ m_faces' = r.faces
                      /\ nmsIn' = r.candidates
            /\ faceOp' = IF ok THEN "process" ELSE "process_failed"
            /\ UNCHANGED << m_anchors, m_confidenceThreshold, m_maxFaces, poseVars >>

\* Session::Run results drawn in the lifecycle
\* runInference's copy of one Ort output of the given shape:
\*   m_outputTensors[i].shape = shape
\*   size = std::accumulate(shape.begin(), shape.end(), 1LL, multiplies)
\*   m_outputTensors[i].data.assign(data, data + size)
OutputCopy(sh, values) == [ data |-> SubSeq(values, 1, Accumulate(sh, 1)), shape |-> sh ]

CyclePoseFrames ==
    { [ data |-> JointValues(1, << 5, 900, 0 >>, 0), shape |-> << 1, 1, 17, 3 >> ],
      [ data |-> << >>, shape |-> << 1, 0, 17, 3 >> ],
      OutputCopy(<< >>, << 900 >>) }     \* a scalar output

CycleFaceFrames ==
    { FaceOutputs(1, f) : f \in { g \in Activations : \A k \in ActiveOf(g) : k = 1 /\ g[k] = 2 } }

CyclePoseThresholdArgs == { -500, 1500 }
CycleFaceThresholdArgs == { -250, 1250 }
CycleMaxFacesArgs      == { -3 }

\* the one model file is the same file at every load: once it has been
\* loaded, a later init finds the inputs the earlier one found
SameFile(inputs) ==
    \/ poseOp \in { "none", "constructed" } /\ faceOp \in { "none", "constructed" }
    \/ /\ Len(inputs) = Len(m_inputShapes)
       /\ \A i \in 1 .. Len(inputs) :
            /\ Normalized(inputs[i].shape) = m_inputShapes[i]
            /\ inputs[i].type = m_inputTensors[i].type

CycleNext ==
    \/ \E path \in ModelPaths : Model(path)
    \/ \E op \in InputOps : Input(op)
    \/ \E loads \in BOOLEAN :
         \E inputs \in (IF kind = "pose" THEN PoseModelInputs ELSE FaceModelInputs) :
           SameFile(inputs) /\ ModelInit(inputs, loads)
    \/ kind = "pose" /\ \E th \in CyclePoseThresholdArgs : PoseConfidenceThreshold(th)
    \/ kind = "face" /\ \E th \in CycleFaceThresholdArgs : FaceConfidenceThreshold(th)
    \/ kind = "face" /\ \E mx \in CycleMaxFacesArgs : FaceMaxFaces(mx)
    \/ \E frame \in CyclePoseFrames : PoseCycle(TRUE, frame)
    \/ \E outs \in CycleFaceFrames : FaceCycle(TRUE, outs)
    \/ Cleanup

\* ========================================================================
\* Specifications
\* ========================================================================
\* no FaceDetector constructed
FaceIdle ==
    /\ m_anchors = << >>
    /\ m_faces = << >>
    /\ m_confidenceThreshold = FaceDefaultThreshold
    /\ m_maxFaces = DefaultMaxFaces
    /\ m_outputTensors = << >>
    /\ nmsIn = << >>
    /\ faceOp = "none"

\* no operator chain: the detectors are driven directly
CycleIdle ==
    /\ kind = "none"
    /\ m_modelPath = ""
    /\ m_inputOp = NoOperator
    /\ m_loaded = FALSE
    /\ m_inputShapes = << >>
    /\ m_inputTensors = << >>
    /\ m_inputWidth = 0
    /\ m_inputHeight = 0
    /\ call = NoCall

\* no conversion in progress
ResizeIdle ==
    /\ pixels = [ width |-> 0, height |-> 0, channels |-> 0, pixels |-> << >> ]
    /\ tensorOut = [ shape |-> << >>, type |-> "float32", data |-> << >> ]
    /\ targetWidth = 0
    /\ targetHeight = 0
    /\ fpContract = FALSE
    /\ converted = FALSE

InitTensor == TensorInit /\ PoseInit /\ FaceIdle /\ CycleIdle /\ ResizeIdle
SpecTensor == InitTensor /\ [][TensorNext]_vars

InitPose == TensorInit /\ PoseInit /\ FaceIdle /\ CycleIdle /\ ResizeIdle
SpecPose == InitPose /\ [][PoseNext]_vars

InitFace == TensorInit /\ PoseInit /\ FaceInit /\ CycleIdle /\ ResizeIdle
SpecFace == InitFace /\ [][FaceNext]_vars

\* a PoseDetector or a FaceDetector right after construction
CycleInit ==
    /\ kind \in { "pose", "face" }
    /\ m_modelPath = ""
    /\ m_inputOp = NoOperator
    /\ m_loaded = FALSE
    /\ m_inputShapes = << >>
    /\ m_inputTensors = << >>
    /\ m_inputWidth = DefaultResolution(kind)[1]
    /\ m_inputHeight = DefaultResolution(kind)[2]
    /\ call = NoCall
    /\ PoseInit
    /\ IF kind = "face" THEN FaceInit ELSE FaceIdle

InitCycle == TensorInit /\ CycleInit /\ ResizeIdle
SpecCycle == InitCycle /\ [][CycleNext]_vars

\* ========================================================================
\* Properties: Tensor (SpecTensor)
\* ========================================================================
\* the product of the dimensions of a shape (1 for no dimensions)
RECURSIVE Product(_)
Product(sh) == IF sh = << >> THEN 1 ELSE Head(sh) * Product(Tail(sh))

\* C1: a reshape that returns without throwing leaves size() as it was before
\* the call, and leaves the data buffer untouched.
C1_ReshapePreservesSize ==
    (tOp = "reshape" /\ ~tThrew) => (Size(shape) = tPre.size /\ data = tPre.data)

\* C2: reshape(newShape) throws whenever product(newShape) differs from
\* size(), and then the shape and the buffer are what they were before.
C2_ReshapeMismatchThrows ==
    (tOp = "reshape" /\ Product(tArg) # tPre.size)
        => (tThrew /\ shape = tPre.shape /\ data = tPre.data)

C2_Witness ==
    /\ tOp = "reshape"
    /\ tThrew
    /\ tPre.shape = << 2, 2 >>
    /\ tArg = << 1, 2 >>
    /\ Len(data) = 4

\* C3: size() is the product of the dimensions of a non-empty shape and 0 for
\* the empty shape.
C3_SizeIsProduct ==
    tOp = "size" => tRet = (IF shape = << >> THEN 0 ELSE Product(shape))

C3_Witness ==
    /\ tOp = "size"
    /\ shape = << 2, 2 >>
    /\ tRet = 4

\* ========================================================================
\* Properties: PoseDetector (SpecPose)
\* ========================================================================
PoseDecoded == poseOp \in { "process", "process_failed" }

\* joints of detection d (56 values each) with confidence at/above thr
JointsAbove(buf, base, thr) ==
    Cardinality({ i \in 0 .. 16 : buf[base + 3 * i + 3] >= thr })

\* 17 times the mean confidence of the 17 joints
ConfTotal(buf, base) ==
    buf[base + 3] + buf[base + 6] + buf[base + 9] + buf[base + 12] + buf[base + 15]
    + buf[base + 18] + buf[base + 21] + buf[base + 24] + buf[base + 27] + buf[base + 30]
    + buf[base + 33] + buf[base + 36] + buf[base + 39] + buf[base + 42] + buf[base + 45]
    + buf[base + 48] + buf[base + 51]

\* (x, y, confidence) of the 17 joints stored at buf[base + 1 ..] as (y, x, confidence)
SwappedJoints(buf, base) ==
    [ k \in 1 .. 17 |-> << buf[base + 3 * k - 1], buf[base + 3 * k - 2], buf[base + 3 * k] >> ]

MultiCandidates(t) == 0 .. (Len(t.data) \div 56) - 1

\* candidate d is a lexicographic maximum of (valid joints, mean confidence)
IsLexMax(t, thr, d) ==
    \A e \in MultiCandidates(t) :
        \/ JointsAbove(t.data, 56 * d, thr) > JointsAbove(t.data, 56 * e, thr)
        \/ /\ JointsAbove(t.data, 56 * d, thr) = JointsAbove(t.data, 56 * e, thr)
           /\ ConfTotal(t.data, 56 * d) >= ConfTotal(t.data, 56 * e)

C5_SingleposeDecode ==
    (PoseDecoded /\ ~IsMultipose(poseOut) /\ Len(poseOut.data) = 51)
        => /\ m_detected <=> (JointsAbove(poseOut.data, 0, m_poseThreshold) >= 5)
           /\ m_keypoints = SwappedJoints(poseOut.data, 0)

C5_Witness ==
    /\ poseOp = "process"
    /\ ~IsMultipose(poseOut)
    /\ Len(poseOut.data) = 51
    /\ m_detected
    /\ JointsAbove(poseOut.data, 0, m_poseThreshold) = 5
    /\ m_keypoints[3][1] # m_keypoints[3][2]

\* the decode of t rejects its input: empty, too few elements, or fewer than
\* 5 joints at/above threshold (in every candidate, for the multi layout)
PoseRejects(t, thr) ==
    \/ t.data = << >>
    \/ /\ IsMultipose(t)
       /\ \A d \in MultiCandidates(t) : JointsAbove(t.data, 56 * d, thr) < 5
    \/ /\ ~IsMultipose(t)
       /\ (Len(t.data) < 51 \/ JointsAbove(t.data, 0, thr) < 5)

\* C6: a decode that fails or rejects its input leaves the 17 keypoints as
\* they were before the decode, with detected() false.
C6_RejectKeepsKeypoints ==
    [][ (poseOp' \in { "process", "process_failed" } /\ PoseRejects(poseOut', m_poseThreshold'))
            => (m_keypoints' = m_keypoints /\ ~m_detected') ]_vars

\* C11: a process cycle whose inference throws leaves the decoder's previous
\* results untouched: pose keypoints and detected flag, and the face list,
\* are after the cycle what they were before it.
C11_FailedCycleKeepsResults ==
    [][ /\ (poseOp' = "process_failed")
              => (m_keypoints' = m_keypoints /\ m_detected' = m_detected)
        /\ (faceOp' = "process_failed") => (m_faces' = m_faces) ]_vars

\* C12: after a process cycle in which the model failed to run, detected()
\* is false on the pose detector and faceCount() is 0 on the face detector.
C12_FailedCycleShowsNothing ==
    /\ (poseOp = "process_failed") => ~m_detected
    /\ (faceOp = "process_failed") => (Len(m_faces) = 0)

\* indices the accessors are queried with
KeypointQueries == { -1, 0, 1, 16, 17, 100 }

FaceOutputsNominal ==
    \/ Len(m_outputTensors) = 1 /\ m_outputTensors[1].len = 896 * 17
    \/ Len(m_outputTensors) = 2 /\ m_outputTensors[1].len = 896 * 16
                                /\ m_outputTensors[2].len = 896
    \/ Len(m_outputTensors) = 4 /\ m_outputTensors[1].len = 512
                                /\ m_outputTensors[2].len = 384
                                /\ m_outputTensors[3].len = 512 * 16
                                /\ m_outputTensors[4].len = 384 * 16

\* raw score of anchor i in the output tensors
RawScoreOf(i) ==
    CASE Len(m_outputTensors) = 1 -> BufAt(m_outputTensors[1], 17 * i + 16)
      [] Len(m_outputTensors) = 2 -> BufAt(m_outputTensors[2], i)
      [] Len(m_outputTensors) = 4 -> IF i < 512 THEN BufAt(m_outputTensors[1], i)
                                     ELSE BufAt(m_outputTensors[2], i - 512)

\* anchors accepted under the current threshold
AcceptedSet ==
    { i \in 0 .. 895 : Sigmoid(RawScoreOf(i)) >= m_confidenceThreshold }

\* number of accepted anchors with confidence c / of kept faces with confidence c
AcceptedWith(c) == Cardinality({ i \in AcceptedSet : Sigmoid(RawScoreOf(i)) = c })
KeptWith(c)     == Cardinality({ k \in 1 .. Len(m_faces) : m_faces[k].confidence = c })

Confidences == { Sigmoid(RawScoreOf(i)) : i \in AcceptedSet }
                 \cup { m_faces[k].confidence : k \in 1 .. Len(m_faces) }

\* C14: when the output tensors match none of the known layouts (an output
\* count other than 1, 2 or 4, or element counts that are not those of 896
\* anchors with 16 regression values and 1 score each) the decode yields
\* zero detections.
C14_UnknownLayoutNoFaces ==
    (faceOp = "process" /\ ~FaceOutputsNominal) => FaceCount = 0

\* C7: when more candidates are accepted than maxFaces, exactly maxFaces
\* faces are kept and they are the highest-confidence accepted candidates.
C7_MaxFacesKeepsTop ==
    (faceOp = "process" /\ FaceOutputsNominal /\ Cardinality(AcceptedSet) > m_maxFaces)
        => /\ Len(m_faces) = m_maxFaces
           /\ \A c \in Confidences : KeptWith(c) <= AcceptedWith(c)
           /\ \A c \in Confidences :
                KeptWith(c) < AcceptedWith(c)
                    => \A k \in 1 .. Len(m_faces) : m_faces[k].confidence >= c

Kept(f) == \E k \in 1 .. Len(m_faces) : m_faces[k] = f

\* C8: non-max suppression over two candidates: with IoU > 0.3 the
\* lower-confidence one is dropped and the higher-confidence one kept; with
\* IoU <= 0.3 and maxFaces >= 2 both are kept.
C8_NmsOfTwo ==
    (faceOp = "process" /\ Len(nmsIn) = 2)
        => \A a, b \in { nmsIn[1], nmsIn[2] } :
             /\ (IouAbove(a.bbox, b.bbox) /\ a.confidence > b.confidence)
                    => (Kept(a) /\ ~Kept(b))
             /\ (a # b /\ ~IouAbove(a.bbox, b.bbox) /\ m_maxFaces >= 2)
                    => (Kept(a) /\ Kept(b))

\* C9: after every decode the face list is in non-increasing confidence
\* order and has at most maxFaces entries.
C9_FacesOrderedAndCapped ==
    faceOp = "process"
        => /\ \A k \in 1 .. Len(m_faces) - 1 :
                m_faces[k].confidence >= m_faces[k + 1].confidence
           /\ Len(m_faces) <= m_maxFaces

FaceQueries     == { -1, 0, 1, 2, 10 }
LandmarkQueries == { -1, 0, 5, 6 }

ZeroFace(f) ==
    /\ f.bbox = << 0, 0, 0, 0 >>
    /\ f.confidence = 0
    /\ \A l \in 1 .. 6 : f.landmarks[l] = << 0, 0 >>

\* C17: in every state face(i), boundingBox(i), confidence(i) and
\* landmark(i, l) give a zero-valued sentinel whenever i < 0 or
\* i >= faceCount() (or l < 0 or l >= 6); no accessor reads outside m_faces.
C17_FaceAccessSentinel ==
    \A i \in FaceQueries \cup { FaceCount - 1, FaceCount } : \A l \in LandmarkQueries :
        /\ (i < 0 \/ i >= FaceCount)
              => /\ ZeroFace(Face(i))
                 /\ BoundingBox(i) = << 0, 0, 0, 0 >>
                 /\ FaceConfidence(i) = 0
        /\ (i < 0 \/ i >= FaceCount \/ l < 0 \/ l >= 6) => Landmark(i, l) = << 0, 0 >>

C17_Witness ==
    /\ faceOp = "process"
    /\ FaceCount = 2
    /\ BoundingBox(1) # << 0, 0, 0, 0 >>
    /\ FaceConfidence(1) > 0
    /\ Landmark(1, 5) # << 0, 0 >>
    /\ BoundingBox(2) = << 0, 0, 0, 0 >>
    /\ Landmark(1, 6) = << 0, 0 >>
    /\ ZeroFace(Face(-1))

\* anchor i (0-based) of the table: 512 anchors of the 16x16 grid, 2 per
\* cell, then 384 of the 8x8 grid, 6 per cell, cells in row-major order
ExpectedAnchor(i) ==
    IF i < 512
      THEN << (2 * ((i \div 2) % 16) + 1) * 8, (2 * ((i \div 2) \div 16) + 1) * 8, 256, 256 >>
      ELSE << (2 * (((i - 512) \div 6) % 8) + 1) * 16,
              (2 * (((i - 512) \div 6) \div 8) + 1) * 16, 256, 256 >>

\* C10: the anchor table holds exactly the 896 anchors of the two grids in
\* that order, in every state: no setter and no decode changes it.
C10_AnchorTable ==
    /\ Len(m_anchors) = 896
    /\ \A i \in 0 .. 895 : m_anchors[i + 1] = ExpectedAnchor(i)

C10_Witness ==
    /\ faceOp = "process"
    /\ m_maxFaces = 1
    /\ m_confidenceThreshold = 800
    /\ Len(m_faces) = 1
    /\ Len(nmsIn) = 2
    /\ Len(m_anchors) = 896

\* ========================================================================
\* Properties: ONNXModel lifecycle (SpecCycle)
\* ========================================================================
\* the source pixels of the attached input operator are missing or invalid
PixelsMissing ==
    /\ m_inputOp.attached
    /\ (~m_inputOp.has \/ m_inputOp.empty \/ m_inputOp.width <= 0 \/ m_inputOp.height <= 0)

\* every element of the input tensor is the placeholder of its detector / type
HoldsPlaceholder(t) ==
    /\ ~t.content.image
    /\ t.content.value = (IF t.type = "float32" THEN (IF kind = "pose" THEN 500 ELSE 0)
                          ELSE 128000)

\* C13: a process cycle of a loaded detector whose source pixels are missing
\* or invalid fills the whole input tensor with the placeholder (128 for
\* uint8 / int32, 0.5 pose float, 0.0 face float) and still runs inference
\* and decode.
C13_MissingPixelsPlaceholder ==
    (call.op = "process" /\ m_loaded /\ PixelsMissing)
        => /\ call.inferred
           /\ call.decoded
           /\ m_inputTensors # << >> => HoldsPlaceholder(m_inputTensors[1])

\* what every accessor of the detector under test returns is zero
QueriesAllZero ==
    /\ ~m_detected
    /\ FaceCount = 0
    /\ \A i \in KeypointQueries : Keypoint(i) = << 0, 0 >> /\ PoseConfidence(i) = 0
    /\ \A i \in FaceQueries : \A l \in LandmarkQueries :
          /\ ZeroFace(Face(i))
          /\ BoundingBox(i) = << 0, 0, 0, 0 >>
          /\ FaceConfidence(i) = 0
          /\ Landmark(i, l) = << 0, 0 >>

\* no init of the component has succeeded so far
NeverLoaded == poseOp \in { "none", "constructed" } /\ faceOp \in { "none", "constructed" }

ConfigurationDefaults ==
    /\ m_poseThreshold = 300
    /\ m_confidenceThreshold = 500
    /\ m_maxFaces = 10

\* C18: the configuration starts at pose threshold 0.3, face threshold 0.5,
\* maxFaces 10, and after any setter calls with any arguments both
\* thresholds lie in [0, 1] and maxFaces is at least 1.
C18_ConfigurationClamped ==
    /\ ConfigurationDefaults
    /\ [](/\ m_poseThreshold >= 0 /\ m_poseThreshold <= 1000
          /\ m_confidenceThreshold >= 0 /\ m_confidenceThreshold <= 1000
          /\ m_maxFaces >= 1)

C18_Witness ==
    /\ kind = "face"
    /\ m_confidenceThreshold = 1000
    /\ m_maxFaces = 1
    /\ faceOp = "constructed"

\* C19: once the pose model's metadata is available the operating resolution
\* is the declared input (width, height) if both are >= 32 and 256 x 256 in
\* every other case; a dimension of 1 is never the resolution.
C19_PoseResolution ==
    (kind = "pose" /\ m_loaded)
        => /\ IF /\ m_inputShapes # << >>
                 /\ Len(m_inputShapes[1]) >= 4
                 /\ m_inputShapes[1][2] >= 32
                 /\ m_inputShapes[1][3] >= 32
                THEN /\ m_inputWidth = m_inputShapes[1][3]
                     /\ m_inputHeight = m_inputShapes[1][2]
                ELSE /\ m_inputWidth = 256
                     /\ m_inputHeight = 256
           /\ m_inputWidth # 1
           /\ m_inputHeight # 1

\* ---------------------------------------------------------------------------
\* ONNXModel::cpuPixelsToTensor: bilinear resize in IEEE-754 single precision
\* ---------------------------------------------------------------------------

RECURSIVE TwoTo(_)
TwoTo(n) == IF n = 0 THEN 1 ELSE 2 * TwoTo(n - 1)

\* the 24-bit significand of a float lies in Two23 .. Two24 - 1
Two23 == TwoTo(23)
Two24 == TwoTo(24)
Two25 == TwoTo(25)

RECURSIVE Log2(_)
Log2(n) == IF n <= 1 THEN 0 ELSE 1 + Log2(n \div 2)

\* a float is m * 2^e with 2^23 <= m < 2^24, or zero.  Every value the
\* conversion handles is non-negative and far from the exponent limits.
FZero == [ m |-> 0, e |-> 0 ]
FOne  == [ m |-> Two23, e |-> -23 ]

RECURSIVE ExcessBits(_)
ExcessBits(N) == IF N < Two24 THEN 0 ELSE 1 + ExcessBits(N \div 2)

\* the float nearest to the exact value (N + half/2) * 2^e, ties to even
RECURSIVE RoundNearestEven(_, _, _)
RoundNearestEven(N, e, half) ==
    IF N < Two24
    THEN IF half = 1 THEN RoundNearestEven(2 * N + 1, e - 1, 0)
         ELSE IF N = 0 THEN FZero
         ELSE IF N < Two23 THEN RoundNearestEven(2 * N, e - 1, 0)
         ELSE [ m |-> N, e |-> e ]
    ELSE LET k  == ExcessBits(N)
             q  == N \div TwoTo(k)
             r  == N % TwoTo(k)
             h  == TwoTo(k - 1)
             up == r > h \/ (r = h /\ (half = 1 \/ q % 2 = 1))
             m  == IF up THEN q + 1 ELSE q
         IN  IF m = Two24 THEN [ m |-> Two23, e |-> e + k + 1 ]
                          ELSE [ m |-> m, e |-> e + k ]

\* long division n / d to 26 quotient bits; a non-zero remainder is kept
\* as the lowest bit so that the rounding sees it
RECURSIVE DivideBits(_, _, _, _)
DivideBits(q, r, d, e) ==
    IF q >= Two25
    THEN RoundNearestEven(IF r # 0 /\ q % 2 = 0 THEN q + 1 ELSE q, e, 0)
    ELSE DivideBits(2 * q + (IF 2 * r >= d THEN 1 ELSE 0), (2 * r) % d, d, e - 1)

\* p[c] / 255.0f
FFromRatio(n, d) == IF n = 0 THEN FZero ELSE DivideBits(n \div d, n % d, d, 0)

\* a * w for a weight w = wn / 2^ws that is itself an exact float
\* (a.m * wn is formed in two halves to stay inside the integer range)
FScale(a, wn, ws) ==
    IF a.m = 0 \/ wn = 0 THEN FZero
    ELSE LET low == (a.m % 2) * wn
         IN  RoundNearestEven((a.m \div 2) * wn + low \div 2, a.e + 1 - ws, low % 2)

\* a + b
FAdd(a, b) ==
    IF a.m = 0 THEN b
    ELSE IF b.m = 0 THEN a
    ELSE LET e == Min(a.e, b.e)
         IN  RoundNearestEven(a.m * TwoTo(a.e - e) + b.m * TwoTo(b.e - e), e, 0)

\* fma(a, w, c): a * w + c with a single rounding
FFma(a, wn, ws, c) ==
    IF a.m = 0 \/ wn = 0 THEN c
    ELSE IF c.m = 0 THEN FScale(a, wn, ws)
    ELSE LET e == Min(a.e - ws, c.e)
         IN  RoundNearestEven(a.m * wn * TwoTo(a.e - ws - e) + c.m * TwoTo(c.e - e), e, 0)

\* static_cast<int32_t>(a): truncation
FTrunc(a) ==
    IF a.m = 0 THEN 0
    ELSE IF a.e >= 0 THEN a.m * TwoTo(a.e)
    ELSE IF -a.e > 30 THEN 0
    ELSE a.m \div TwoTo(-a.e)

\* static_cast<int>(n / d), d > 0: towards zero
TruncDiv(n, d) == IF n >= 0 THEN n \div d ELSE -((-n) \div d)

\* bool isNHWC, int channels
IsNHWC(tshape) == ~(Len(tshape) >= 4 /\ tshape[2] <= 4)
TensorChannels(tshape) ==
    IF Len(tshape) >= 4
    THEN (IF tshape[2] <= 4 THEN tshape[2] ELSE tshape[4])
    ELSE 3

\* getPixel(px, py)[c]
GetPixel(img, px, py, c) ==
    IF c < img.channels /\ c < 4
    THEN FFromRatio(img.pixels[(py * img.width + px) * img.channels + c + 1], 255)
    ELSE IF c = 3 THEN FOne ELSE FZero

\* a * (1 - f) + b * f for f = fn / 2^fs; a build that contracts the
\* expression fuses the first product into the addition
Lerp(a, b, fn, fs, fused) ==
    IF fused
    THEN FFma(a, TwoTo(fs) - fn, fs, FScale(b, fn, fs))
    ELSE FAdd(FScale(a, TwoTo(fs) - fn, fs), FScale(b, fn, fs))

\* result[c] of output pixel (x, y).  targetWidth and targetHeight are powers
\* of two here, so scaleX, scaleY, srcX, srcY, fx, fy and 1 - fx, 1 - fy are
\* small dyadic fractions and exact in single precision: the coordinates are
\* computed in units of 1 / (2 * target size).
ResizedChannel(img, tw, th, x, y, c, fused) ==
    LET srcXn == (2 * x + 1) * img.width - tw      \* srcX * 2 * tw
        srcYn == (2 * y + 1) * img.height - th
        x0 == Max(0, Min(TruncDiv(srcXn, 2 * tw), img.width - 1))
        y0 == Max(0, Min(TruncDiv(srcYn, 2 * th), img.height - 1))
        x1 == Max(0, Min(x0 + 1, img.width - 1))
        y1 == Max(0, Min(y0 + 1, img.height - 1))
        fxn == srcXn % (2 * tw)                     \* fx * 2 * tw
        fyn == srcYn % (2 * th)
        fxs == Log2(2 * tw)
        fys == Log2(2 * th)
        v0 == Lerp(GetPixel(img, x0, y0, c), GetPixel(img, x1, y0, c), fxn, fxs, fused)
        v1 == Lerp(GetPixel(img, x0, y1, c), GetPixel(img, x1, y1, c), fxn, fxs, fused)
    IN  Lerp(v0, v1, fyn, fys, fused)

\* the value stored for result[c]
Stored(type, result) ==
    IF type = "uint8" THEN FTrunc(FScale(result, 255, 0)) % 256
    ELSE IF type = "int32" THEN FTrunc(FScale(result, 255, 0))
    ELSE result

\* the element of a tensor of the given type before anything is written
Unwritten(type) == IF type = "float32" THEN FZero ELSE 0

\* 0-based (x, y, c) of data element i0 under the layout of the tensor
ElementAt(tshape, tw, th, i0) ==
    IF IsNHWC(tshape)
    THEN [ x |-> (i0 \div TensorChannels(tshape)) % tw,
           y |-> (i0 \div TensorChannels(tshape)) \div tw,
           c |-> i0 % TensorChannels(tshape) ]
    ELSE [ x |-> (i0 % (tw * th)) % tw,
           y |-> (i0 % (tw * th)) \div tw,
           c |-> i0 \div (tw * th) ]

\* the data of the tensor after the two loops
ResizedData(img, t, tw, th, fused) ==
    [ i \in 1 .. Len(t.data) |->
        LET at == ElementAt(t.shape, tw, th, i - 1)
        IN  IF at.c < TensorChannels(t.shape) /\ at.c < 4 /\ at.y < th
            THEN Stored(t.type, ResizedChannel(img, tw, th, at.x, at.y, at.c, fused))
            ELSE t.data[i] ]

\* bool ONNXModel::cpuPixelsToTensor(pixels, tensor, targetWidth, targetHeight)
CpuPixelsToTensor ==
    /\ ~converted
    /\ UNCHANGED << tensorVars, poseVars, faceVars, cycleVars >>
    /\ UNCHANGED << pixels, targetWidth, targetHeight, fpContract >>
    /\ IF pixels.pixels = << >> \/ pixels.width <= 0 \/ pixels.height <= 0
       THEN UNCHANGED << tensorOut, converted >>
       ELSE /\ tensorOut' = [ tensorOut EXCEPT
                                !.data = ResizedData(pixels, tensorOut, targetWidth,
                                                     targetHeight, fpContract) ]
            /\ converted' = TRUE

SourceWidths     == { 1, 2, 3 }
SourceHeights    == { 1, 2 }
SourceChannels   == { 3, 4 }
Colours          == { << 255, 103, 0 >>, << 128, 64, 7 >> }
TargetWidths     == { 2, 4 }
TargetHeights    == { 4, 8 }
ResizeTypes      == { "float32", "uint8", "int32" }

\* a source image whose every pixel has the same colour (alpha opaque)
UniformImage(w, h, ch, colour) ==
    [ width |-> w, height |-> h, channels |-> ch,
      pixels |-> [ i \in 1 .. w * h * ch |->
                     IF (i - 1) % ch < 3 THEN colour[((i - 1) % ch) + 1] ELSE 255 ] ]

\* a source image whose colour changes from pixel to pixel along both axes
RampImage(w, h, ch) ==
    [ width |-> w, height |-> h, channels |-> ch,
      pixels |-> [ i \in 1 .. w * h * ch |->
                     LET px == ((i - 1) \div ch) % w
                         py == ((i - 1) \div ch) \div w
                         c  == (i - 1) % ch
                     IN  IF c < 3 THEN (px * 96 + py * 40 + c * 8) % 256 ELSE 255 ] ]

\* the three-channel tensor a caller sizes for a tw x th input: channels
\* last when the height cannot be taken for a channel count, else channels first
SizedTensor(type, tw, th) ==
    [ shape |-> IF th > 4 THEN << 1, th, tw, 3 >> ELSE << 1, 3, th, tw >>,
      type  |-> type,
      data  |-> [ i \in 1 .. 3 * tw * th |-> Unwritten(type) ] ]

ResizeInit ==
    \E w \in SourceWidths, h \in SourceHeights, ch \in SourceChannels, colour \in Colours,
       tw \in TargetWidths, th \in TargetHeights, type \in ResizeTypes, fused \in BOOLEAN :
        /\ pixels \in { UniformImage(w, h, ch, colour), RampImage(w, h, ch) }
        /\ tensorOut = SizedTensor(type, tw, th)
        /\ targetWidth = tw
        /\ targetHeight = th
        /\ fpContract = fused
        /\ converted = FALSE

InitResize == TensorInit /\ PoseInit /\ FaceIdle /\ CycleIdle /\ ResizeInit
ResizeNext == CpuPixelsToTensor
SpecResize == InitResize /\ [][ResizeNext]_vars

\* the colour of channel c as the tensor type stores it
StoredColour(type, colour) ==
    IF type = "float32" THEN FFromRatio(colour, 255) ELSE colour

\* two floats at most a few units in the last place apart
FClose(a, b) ==
    IF a.m = 0 \/ b.m = 0 THEN a = b
    ELSE LET e  == Min(a.e, b.e)
             am == a.m * TwoTo(a.e - e)
             bm == b.m * TwoTo(b.e - e)
         IN  /\ a.e - e <= 1
             /\ b.e - e <= 1
             /\ am - bm <= 4
             /\ bm - am <= 4

RefAxis(n, d, size) ==
    [ i0 |-> Clamp(n \div d, 0, size - 1),
      i1 |-> Clamp((n \div d) + 1, 0, size - 1),
      fn |-> n % d ]

\* separable bilinear interpolation of channel c at
\* ((x + 0.5) * scaleX - 0.5, (y + 0.5) * scaleY - 0.5), blended with the same
\* arithmetic as the conversion
ReferenceChannel(img, tw, th, x, y, c, fused) ==
    LET ax == RefAxis((2 * x + 1) * img.width - tw, 2 * tw, img.width)
        ay == RefAxis((2 * y + 1) * img.height - th, 2 * th, img.height)
        v0 == Lerp(GetPixel(img, ax.i0, ay.i0, c), GetPixel(img, ax.i1, ay.i0, c),
                   ax.fn, Log2(2 * tw), fused)
        v1 == Lerp(GetPixel(img, ax.i0, ay.i1, c), GetPixel(img, ax.i1, ay.i1, c),
                   ax.fn, Log2(2 * tw), fused)
    IN  Lerp(v0, v1, ay.fn, Log2(2 * th), fused)

\* C21: for every source size, target size and output pixel (x, y) the
\* resized value equals reference separable bilinear interpolation with
\* clamp-to-edge addressing at ((x+0.5)*scaleX - 0.5, (y+0.5)*scaleY - 0.5)
C21_ResizeIsClampedBilinear ==
    converted =>
        \A i \in 1 .. Len(tensorOut.data) :
            LET at == ElementAt(tensorOut.shape, targetWidth, targetHeight, i - 1)
            IN  tensorOut.data[i] =
                  Stored(tensorOut.type,
                         ReferenceChannel(pixels, targetWidth, targetHeight,
                                          at.x, at.y, at.c, fpContract))

\* ---- face results ---------------------------------------------------------
\* every coordinate of the face lies in [0, 1]
FaceInUnitSquare(f) ==
    /\ \A c \in 1 .. 4 : f.bbox[c] >= 0 /\ f.bbox[c] <= Unit
    /\ \A l \in 1 .. NumLandmarks :
         \A c \in 1 .. 2 : f.landmarks[l][c] >= 0 /\ f.landmarks[l][c] <= Unit

\* a step that ran the face decoder
FaceDecodeStep == faceOp' \in { "process", "process_failed" }

\* C22: every face in the result has its bounding box x, y, w, h and its 6
\* landmarks within [0, 1], and right after any decode (1, 2 or 4 outputs)
\* every face has confidence >= the threshold in effect at that decode
C22_FacesAboveThresholdInUnitSquare ==
    /\ [](\A k \in 1 .. Len(m_faces) : FaceInUnitSquare(m_faces[k]))
    /\ [][ FaceDecodeStep =>
             \A k \in 1 .. Len(m_faces') : m_faces'[k].confidence >= m_confidenceThreshold ]_vars

\* a 4-output decode returned the face of anchor 895, whose last landmark
\* regresses far outside the image on both axes
C22_Witness ==
    /\ faceOp = "process"
    /\ Len(m_outputTensors) = 4
    /\ \E k \in 1 .. Len(m_faces) :
         /\ m_faces[k].landmarks[NumLandmarks] = << Unit, 0 >>
         /\ m_faces[k].confidence >= m_confidenceThreshold

\* where the decoder that ran on `outputs` found the raw score of anchor i:
\* buf[i * stride + offset]; reached = the branch got as far as decoding
ScoresSeen(outputs) ==
    IF Len(outputs) = 4
      THEN [ buf |-> ConcatBuf(outputs[1], outputs[2]), stride |-> 1, offset |-> 0,
             reached |-> outputs[1].len > 0 /\ outputs[3].len > 0 ]
    ELSE IF Len(outputs) >= 2
      THEN [ buf |-> outputs[2], stride |-> 1, offset |-> 0,
             reached |-> outputs[1].len > 0 /\ outputs[2].len > 0 ]
    ELSE IF Len(outputs) = 1
      THEN [ buf |-> outputs[1], stride |-> outputs[1].len \div NumAnchors, offset |-> 16,
             reached |-> outputs[1].len \div NumAnchors >= 17 ]
    ELSE [ buf |-> EmptyBuffer, stride |-> 1, offset |-> 0, reached |-> FALSE ]

\* the confidences in a list of faces that are above c
Above(fs, c) == { k \in 1 .. Len(fs) : fs[k].confidence > c }

\* C23: before non-max suppression runs the candidate list is in descending
\* confidence order and holds the min(accepted, 3 x maxFaces) best accepted
\* candidates
C23_NmsSeesTopCandidates ==
    LET seen     == ScoresSeen(m_outputTensors)
        accepted == AcceptedAnchors(seen.buf, seen.stride, seen.offset,
                                    m_confidenceThreshold, NumAnchors)
        conf(i)  == Sigmoid(BufAt(seen.buf, i * seen.stride + seen.offset))
    IN  (/\ faceOp \in { "process", "process_failed" }
         /\ seen.reached
         /\ ~ReadsPastEnd(m_outputTensors, m_confidenceThreshold, NumAnchors)) =>
          /\ IsDescending(nmsIn)
          /\ Len(nmsIn) = Min(Cardinality(accepted), 3 * m_maxFaces)
          /\ \A k \in 1 .. Len(nmsIn) :
               Cardinality({ i \in accepted : conf(i) > nmsIn[k].confidence })
                 = Cardinality(Above(nmsIn, nmsIn[k].confidence))

\* C24: the divisor the face decode applies to the 16 regression values is
\* the input pixel dimension selected when the model was loaded, the size
\* the preprocessor resizes to
C24_ScaleIsInputDimension ==
    (kind = "face" /\ m_loaded /\ call.op = "process" /\ call.decoded) =>
        /\ FaceScale = m_inputWidth
        /\ FaceScale = m_inputHeight
        /\ m_inputTensors[1].shape = << 1, FaceScale, FaceScale, 3 >>

\* the length of the buffer of the tensor's element type
ActiveLength(t) ==
    CASE t.type = "uint8" -> t.sizeU8
      [] t.type = "int32" -> t.sizeI32
      [] OTHER            -> t.sizeF32

\* C25: after a successful init and through any number of process cycles,
\* every input tensor's buffer for its element type has length size(), and
\* the output tensor's float buffer has length size()
C25_BuffersMatchSize ==
    m_loaded =>
        /\ \A i \in 1 .. Len(m_inputTensors) :
             ActiveLength(m_inputTensors[i]) = Size(m_inputTensors[i].shape)
        /\ kind = "pose" => Len(poseOut.data) = Size(poseOut.shape)

\* C26: in every reachable state of a FaceDetector, under any interleaving of
\* maxFaces() calls and process cycles, faceCount() is at most the currently
\* configured maxFaces
C26_FaceCountWithinMaxFaces == FaceCount <= m_maxFaces

\* ---- non-max suppression ---------------------------------------------------
\* the overlap of the intervals [lo1, lo1 + len1] and [lo2, lo2 + len2]
OverlapLength(lo1, len1, lo2, len2) ==
    LET lo == IF lo1 > lo2 THEN lo1 ELSE lo2
        hi == IF lo1 + len1 < lo2 + len2 THEN lo1 + len1 ELSE lo2 + len2
    IN  IF hi > lo THEN hi - lo ELSE 0

\* intersection-over-union of the two boxes is greater than 0.3
IouOverThreshold(a, b) ==
    LET inter == OverlapLength(a[1], a[3], b[1], b[3]) * OverlapLength(a[2], a[4], b[2], b[4])
        union == a[3] * a[4] + b[3] * b[4] - inter
    IN  union > 0 /\ 10 * inter > 3 * union

\* a is obtained from b by deleting elements
RECURSIVE IsSubsequence(_, _)
IsSubsequence(a, b) ==
    IF a = << >> THEN TRUE
    ELSE IF b = << >> THEN FALSE
    ELSE IF Head(a) = Head(b) THEN IsSubsequence(Tail(a), Tail(b))
    ELSE IsSubsequence(a, Tail(b))

\* C27: after non-max suppression no two kept faces have IoU > 0.3 with each
\* other, and the kept list is a subsequence of the candidate list that
\* contains the first candidate
C27_NmsKeepsDisjointSubsequence ==
    /\ \A j, k \in 1 .. Len(m_faces) :
         j < k => ~IouOverThreshold(m_faces[j].bbox, m_faces[k].bbox)
    /\ IsSubsequence(m_faces, nmsIn)
    /\ nmsIn # << >> => (m_faces # << >> /\ m_faces[1] = nmsIn[1])

\* two candidates reached suppression and the second was dropped for
\* overlapping the first
C27_Witness ==
    /\ faceOp = "process"
    /\ Len(nmsIn) = 2
    /\ IouOverThreshold(nmsIn[1].bbox, nmsIn[2].bbox)
    /\ m_faces = << nmsIn[1] >>

\* C28: during a face decode every index read from a score or regression
\* buffer lies within that buffer, whatever the sizes of the model's output
\* tensors, in each of the 1-, 2- and 4-output branches
C28_DecodeReadsInBounds ==
    faceOp \in { "process", "process_failed", "fault" } =>
        ~ReadsPastEnd(m_outputTensors, m_confidenceThreshold, Len(m_anchors))

\* ---- the two decode paths -------------------------------------------------
\* the raw scores a combined [1, 896, 17] output / a score output gives the
\* anchors of the pool
ScoresOfCombined(buf) == [ k \in 1 .. Len(Pool) |-> BufAt(buf, Pool[k].anchor * 17 + 16) ]
ScoresOfSplit(buf)    == [ k \in 1 .. Len(Pool) |-> BufAt(buf, Pool[k].anchor) ]

\* the final face lists processOutputTensor can leave for the outputs
FinalFaces(outputs) ==
    { r.faces : r \in ProcessOutputTensor(outputs, m_confidenceThreshold, m_maxFaces, m_anchors) }

\* C29: the inline single-output decode and the shared two-output decode are
\* equivalent: given the same raw score and the same 16 regression values per
\* anchor, the same threshold and the same maxFaces, both produce the same
\* final face list
C29_DecodePathsEquivalent ==
    /\ (/\ faceOp = "process"
        /\ Len(m_outputTensors) = 1
        /\ m_outputTensors = FaceOutputs(1, ScoresOfCombined(m_outputTensors[1])))
         => m_faces \in FinalFaces(FaceOutputs(2, ScoresOfCombined(m_outputTensors[1])))
    /\ (/\ faceOp = "process"
        /\ Len(m_outputTensors) = 2
        /\ m_outputTensors = FaceOutputs(2, ScoresOfSplit(m_outputTensors[2])))
         => m_faces \in FinalFaces(FaceOutputs(1, ScoresOfSplit(m_outputTensors[2])))

====
